---- MODULE Spec2Model ----
(***************************************************************************)
(* Macro calculator (src/app.py): the Streamlit script as a state machine. *)
(* The state is the sidebar's widget values and the values the script      *)
(* computes from them; every widget edit reruns the whole script.          *)
(*                                                                         *)
(* Python floats are IEEE binary64 and are modelled as such: every         *)
(* arithmetic operation is computed exactly and then rounded to 53         *)
(* significant bits, ties to even.  TLC's integers are 32 bits wide, so a  *)
(* significand is an arbitrary-precision natural, kept as a little-endian  *)
(* sequence of 14-bit limbs.  The values of this script stay far from the  *)
(* ends of the exponent range, so overflow, subnormals, infinities and     *)
(* NaN are not modelled, and zero carries no sign.                         *)
(***************************************************************************)
EXTENDS Integers, Sequences, FiniteSets, TLC

----------------------------------------------------------------------------
(* Arbitrary-precision naturals *)

Base == 2 ^ 14

Dg(x, i) == IF i <= Len(x) THEN x[i] ELSE 0

MaxOf(a, b) == IF a >= b THEN a ELSE b

MinOf(a, b) == IF a <= b THEN a ELSE b

RECURSIVE Trim(_)
Trim(x) ==
    IF x = <<>> THEN x
    ELSE IF x[Len(x)] = 0 THEN Trim(SubSeq(x, 1, Len(x) - 1)) ELSE x

\* Carry propagation over a sequence of column sums (\div and % floor, so a
\* negative column borrows from the next one).
RECURSIVE Carry(_, _, _)
Carry(cols, i, c) ==
    IF i > Len(cols) /\ c = 0 THEN <<>>
    ELSE LET s == Dg(cols, i) + c
         IN  <<s % Base>> \o Carry(cols, i + 1, s \div Base)

RECURSIVE NatOf(_)
NatOf(n) == IF n = 0 THEN <<>> ELSE <<n % Base>> \o NatOf(n \div Base)

BAdd(x, y) ==
    Carry([i \in 1..MaxOf(Len(x), Len(y)) |-> Dg(x, i) + Dg(y, i)], 1, 0)

\* x - y for x >= y
BSub(x, y) ==
    Trim(Carry([i \in 1..Len(x) |-> Dg(x, i) - Dg(y, i)], 1, 0))

RECURSIVE ColSum(_, _, _, _, _)
ColSum(x, y, k, i, hi) ==
    IF i > hi THEN 0 ELSE x[i] * y[k - i + 1] + ColSum(x, y, k, i + 1, hi)

\* x * s for one limb s
MulSmall(x, s) == Trim(Carry([i \in 1..Len(x) |-> x[i] * s], 1, 0))

BMul(x, y) ==
    IF x = <<>> \/ y = <<>> THEN <<>>
    ELSE IF Len(y) = 1 THEN MulSmall(x, y[1])
    ELSE IF Len(x) = 1 THEN MulSmall(y, x[1])
    ELSE Trim(Carry([k \in 1..(Len(x) + Len(y) - 1) |->
                        ColSum(x, y, k, MaxOf(1, k - Len(y) + 1),
                               MinOf(k, Len(x)))], 1, 0))

RECURSIVE CmpAt(_, _, _)
CmpAt(x, y, i) ==
    IF i = 0 THEN 0
    ELSE IF x[i] < y[i] THEN -1
    ELSE IF x[i] > y[i] THEN 1
    ELSE CmpAt(x, y, i - 1)

BCmp(x, y) ==
    IF Len(x) < Len(y) THEN -1
    ELSE IF Len(x) > Len(y) THEN 1
    ELSE CmpAt(x, y, Len(x))

\* <<t, r - t * d>> for the largest t <= g with t * d <= r, given p = g * d
RECURSIVE LimbSearch(_, _, _, _)
LimbSearch(r, d, g, p) ==
    IF BCmp(p, r) <= 0 THEN <<g, BSub(r, p)>>
    ELSE LimbSearch(r, d, g - 1, BSub(p, d))

\* An upper estimate of r div d from their top limbs (r < Base * d)
LimbGuess(r, d) ==
    MinOf(Base - 1,
          (Dg(r, Len(d) + 1) * Base + Dg(r, Len(d))) \div d[Len(d)])

\* <<r div d, r mod d>> for d <= r < Base * d
LimbDiv(r, d, g) == LimbSearch(r, d, g, MulSmall(d, g))

\* Schoolbook division from limb i of n down, with the quotient limbs q found
\* so far and the remainder r: <<quotient, remainder>>
RECURSIVE DivFrom(_, _, _, _, _)
DivTake(n, d, i, q, tr) == DivFrom(n, d, i - 1, <<tr[1]>> \o q, tr[2])

DivStep(n, d, i, q, r) ==
    IF BCmp(r, d) < 0 THEN DivFrom(n, d, i - 1, <<0>> \o q, r)
    ELSE DivTake(n, d, i, q, LimbDiv(r, d, LimbGuess(r, d)))

DivFrom(n, d, i, q, r) ==
    IF i = 0 THEN <<Trim(q), r>>
    ELSE DivStep(n, d, i, q, Trim(<<n[i]>> \o r))

DivNorm(n, d) ==
    IF Len(n) < Len(d) THEN <<(<<>>), n>>
    ELSE DivFrom(n, d, Len(n) - Len(d) + 1, <<>>,
                 SubSeq(n, Len(n) - Len(d) + 2, Len(n)))

\* <<n div d, (n mod d) * f>> for d # 0, where the factor f brings the top
\* limb of d to Base / 2 or more, so that LimbGuess is at most 2 off
BDivMod(n, d) ==
    DivNorm(MulSmall(n, Base \div (d[Len(d)] + 1)),
            MulSmall(d, Base \div (d[Len(d)] + 1)))

\* <<n div s, n mod s>> for one limb s # 0, over the limbs i down to 1 of n
\* with r carried in from above
RECURSIVE DivSmall(_, _, _, _)
DivSmall(n, s, i, r) ==
    IF i = 0 THEN <<(<<>>), r>>
    ELSE LET v  == r * Base + n[i]
             qr == DivSmall(n, s, i - 1, v % s)
         IN  <<qr[1] \o <<v \div s>>, qr[2]>>

RECURSIVE Bits(_)
Bits(v) == IF v = 0 THEN 0 ELSE 1 + Bits(v \div 2)

LimbBits == Bits(Base - 1)

RECURSIVE TzBits(_)
TzBits(v) == IF v % 2 = 1 THEN 0 ELSE 1 + TzBits(v \div 2)

\* The number of zero bits x # 0 ends in
Tz(x) ==
    LET j == CHOOSE i \in 1..Len(x) : x[i] # 0 /\ \A h \in 1..(i - 1) : x[h] = 0
    IN  LimbBits * (j - 1) + TzBits(x[j])

\* The number of bits of x
BitLen(x) == IF x = <<>> THEN 0 ELSE LimbBits * (Len(x) - 1) + Bits(x[Len(x)])

\* x * 2^k
ShiftL(x, k) ==
    IF x = <<>> THEN x
    ELSE [i \in 1..(k \div LimbBits) |-> 0] \o MulSmall(x, 2 ^ (k % LimbBits))

\* y div b for b a power of 2 below Base
ShiftBits(y, b) ==
    Trim([i \in 1..Len(y) |->
             (y[i] \div b) + (Dg(y, i + 1) % b) * (Base \div b)])

\* x div 2^k
ShiftR(x, k) ==
    IF k \div LimbBits >= Len(x) THEN <<>>
    ELSE ShiftBits(SubSeq(x, k \div LimbBits + 1, Len(x)), 2 ^ (k % LimbBits))

\* Bit i of x (bit 0 is the lowest)
Bit(x, i) == (Dg(x, i \div LimbBits + 1) \div 2 ^ (i % LimbBits)) % 2

\* x mod 2^k # 0
LowBits(x, k) ==
    \E i \in 1..Len(x) :
        \/ i <= k \div LimbBits /\ x[i] # 0
        \/ i = k \div LimbBits + 1 /\ x[i] % 2 ^ (k % LimbBits) # 0

\* q, or q + 1 when the bits dropped from it are more than half a unit, or
\* exactly half and q is odd
RoundEven(q, half, rest) ==
    IF half /\ (rest \/ Dg(q, 1) % 2 = 1) THEN BAdd(q, <<1>>) ELSE q

\* x / 2^k rounded to the nearest natural, ties to even
ShiftRound(x, k) ==
    IF k <= 0 THEN ShiftL(x, -k)
    ELSE RoundEven(ShiftR(x, k), Bit(x, k - 1) = 1, LowBits(x, k - 1))

----------------------------------------------------------------------------
(* Python's float: sign s in {-1, 0, 1}, value s * m * 2^e, with m of      *)
(* exactly Precision bits unless the value is 0                            *)

Precision == 53

FZero == [s |-> 0, m |-> <<>>, e |-> 0]

\* A division by zero yields no number
ZeroDivisionError == [s |-> 0, m |-> <<0>>, e |-> 0]

raised(v) == v.m = <<0>>

\* s * q * 2^e for q of Precision bits, or of one more after rounding up
Renorm(s, q, e) ==
    IF BitLen(q) > Precision THEN [s |-> s, m |-> ShiftR(q, 1), e |-> e + 1]
    ELSE [s |-> s, m |-> q, e |-> e]

FlAt(s, n, e, k) == Renorm(s, ShiftRound(n, k), e + k)

\* s * n * 2^e rounded to the nearest float, ties to even
Fl(s, n, e) ==
    IF n = <<>> THEN FZero ELSE FlAt(s, n, e, BitLen(n) - Precision)

\* float(a) for an int a
FInt(a) ==
    Fl(IF a < 0 THEN -1 ELSE IF a = 0 THEN 0 ELSE 1,
       NatOf(IF a < 0 THEN -a ELSE a), 0)

FNeg(a) == [a EXCEPT !.s = -a.s]

\* sa * p * 2^e + sb * q * 2^e
AddAligned(sa, p, sb, q, e) ==
    IF sa = sb THEN Fl(sa, BAdd(p, q), e)
    ELSE IF BCmp(p, q) >= 0 THEN Fl(sa, BSub(p, q), e)
    ELSE Fl(sb, BSub(q, p), e)

FAdd(a, b) ==
    IF raised(a) \/ raised(b) THEN ZeroDivisionError
    ELSE IF a.s = 0 THEN b
    ELSE IF b.s = 0 THEN a
    ELSE AddAligned(a.s, ShiftL(a.m, a.e - MinOf(a.e, b.e)),
                    b.s, ShiftL(b.m, b.e - MinOf(a.e, b.e)), MinOf(a.e, b.e))

FSub(a, b) == FAdd(a, FNeg(b))

FMul(a, b) ==
    IF raised(a) \/ raised(b) THEN ZeroDivisionError
    ELSE IF a.s = 0 \/ b.s = 0 THEN FZero
    ELSE Fl(a.s * b.s, BMul(a.m, b.m), a.e + b.e)

\* <<n div d, n mod d # 0>>
Quotient(n, d) ==
    IF Len(d) = 1
    THEN LET sr == DivSmall(n, d[1], Len(n), 0) IN <<Trim(sr[1]), sr[2] # 0>>
    ELSE LET lr == BDivMod(n, d) IN <<lr[1], lr[2] # <<>> >>

\* The quotient qr[1] with a sticky bit appended for the remainder
Sticky(qr) == BAdd(ShiftL(qr[1], 1), IF qr[2] THEN <<1>> ELSE <<>>)

\* a.m * 2^a.e / (d * 2^e) for d odd: the quotient a.m * 2^k div d, with
\* k = BitLen(d) + 2, has Precision + 2 bits or more; these and the sticky
\* bit decide the rounding
DivOdd(a, s, d, e) ==
    Fl(s, Sticky(Quotient(ShiftL(a.m, BitLen(d) + 2), d)),
       a.e - e - BitLen(d) - 3)

\* Python's a / b
Divide(a, b) ==
    IF raised(a) \/ raised(b) \/ b.s = 0 THEN ZeroDivisionError
    ELSE IF a.s = 0 THEN FZero
    ELSE DivOdd(a, a.s * b.s, ShiftR(b.m, Tz(b.m)), b.e + Tz(b.m))

\* The float literal a/b in decimal notation, e.g. 2.54 as FFrac(254, 100)
FFrac(a, b) == Divide(FInt(a), FInt(b))

\* -1, 0 or 1 as a < b, a = b, a > b
FCmp(a, b) ==
    IF a.s # b.s THEN (IF a.s < b.s THEN -1 ELSE 1)
    ELSE IF a.s = 0 THEN 0
    ELSE IF a.e # b.e THEN (IF a.e < b.e THEN -a.s ELSE a.s)
    ELSE a.s * BCmp(a.m, b.m)

FEq(a, b) == FCmp(a, b) = 0
FLt(a, b) == FCmp(a, b) < 0

\* Python's max(a, b) and min(a, b)
FMax(a, b) == IF FCmp(b, a) > 0 THEN b ELSE a
FMin(a, b) == IF FCmp(b, a) < 0 THEN b ELSE a

----------------------------------------------------------------------------
(* Helper math (src/app.py 10-37) *)

\* Python's round(): to the nearest integer, ties to the even one
PyRound(v) ==
    IF raised(v) \/ v.s = 0 \/ v.e >= 0 THEN v
    ELSE Fl(v.s, ShiftRound(v.m, -v.e), 0)

Pow10(d) == FInt(10 ^ d)

Epsilon == Divide(FInt(1), FMul(FInt(1000000), FInt(1000000)))

round_n(n, d) == Divide(PyRound(FMul(FAdd(n, Epsilon), Pow10(d))), Pow10(d))

LbKg == FFrac(45359237, 100000000)

lb_to_kg(lb) == FMul(lb, LbKg)
kg_to_lb(kg) == Divide(kg, LbKg)
cm_to_in(cm) == Divide(cm, FFrac(254, 100))
in_to_cm(inch) == FMul(inch, FFrac(254, 100))

ACTIVITY(label) ==
    CASE label = "Sedentary (1.2)" -> FFrac(12, 10)
      [] label = "Light (1.375)"   -> FFrac(1375, 1000)
      [] label = "Moderate (1.55)" -> FFrac(155, 100)
      [] label = "Very (1.725)"    -> FFrac(1725, 1000)
      [] label = "Athlete (1.9)"   -> FFrac(19, 10)

mifflin_st_jeor(sex, weight_kg, height_cm, age) ==
    LET s == IF sex = "Male" THEN 5 ELSE -161
    IN  FAdd(FSub(FAdd(FMul(FInt(10), weight_kg),
                       FMul(FFrac(625, 100), height_cm)),
                  FInt(5 * age)),
             FInt(s))

katch_mc_ardle(lean_mass_kg) ==
    FAdd(FInt(370), FMul(FFrac(216, 10), lean_mass_kg))

----------------------------------------------------------------------------
(* The script's derived values (src/app.py 55-66, 102-176, 186, 212-216).  *)
(* An optional value is the empty sequence (None) or <<v>>.                *)

None == <<>>

Imperial(units) == units = "Imperial (lb, ft/in)"

height_cm(w) ==
    IF Imperial(w.units) THEN in_to_cm(FInt(w.ft * 12 + w.inch)) ELSE w.height_cm

weight_kg(w) ==
    IF Imperial(w.units) THEN lb_to_kg(w.weight_lb) ELSE w.weight_kg

\* body_fat is None or <<percent>>
lean_mass_kg(body_fat, wkg) ==
    IF body_fat # None /\ FCmp(body_fat[1], FZero) >= 0
    THEN LET bf == Divide(FMin(FMax(body_fat[1], FZero), FInt(70)), FInt(100))
         IN  <<FMul(wkg, FSub(FInt(1), bf))>>
    ELSE None

\* math.isnan: no value of this model is NaN
isnan(v) == FALSE

UseKatch(lm) == lm # None /\ ~isnan(lm[1])

bmr(lm, sex, wkg, hcm, age) ==
    IF UseKatch(lm) THEN katch_mc_ardle(lm[1])
    ELSE mifflin_st_jeor(sex, wkg, hcm, age)

bmr_method(lm) ==
    IF UseKatch(lm) THEN "Katch-McArdle" ELSE "Mifflin-St Jeor"

tdee(b, activity_mult) == FMul(b, activity_mult)

\* Style sets fat% first (base_fat_percent is overwritten in every branch)
\* Faulty variant: the Balanced style leaves the base fat percent in place
style_fat_percent_keeps_base(style, base_fat_percent) ==
    IF style = "Balanced (30% fat)" THEN base_fat_percent
    ELSE IF style = "Low-carb (35% fat)" THEN 35
    ELSE 25

style_fat_percent(style, base_fat_percent) ==
    IF style = "Balanced (30% fat)" THEN 30
    ELSE IF style = "Low-carb (35% fat)" THEN 35
    ELSE 25

\* Faulty variant: the preset shifts the base delta instead of replacing it
calc_calorie_delta_pct_offset(preset, base_calorie_delta_pct) ==
    IF preset = "Cut (-20%)" THEN base_calorie_delta_pct - 20
    ELSE IF preset = "Recomp (0%)" THEN base_calorie_delta_pct
    ELSE IF preset = "Lean Bulk (+10%)" THEN base_calorie_delta_pct + 10
    ELSE base_calorie_delta_pct

calc_calorie_delta_pct(preset, base_calorie_delta_pct) ==
    IF preset # "Custom"
    THEN IF preset = "Cut (-20%)" THEN -20
         ELSE IF preset = "Recomp (0%)" THEN 0
         ELSE IF preset = "Lean Bulk (+10%)" THEN 10
         ELSE base_calorie_delta_pct
    ELSE base_calorie_delta_pct

\* Faulty variant: the preset overwrites the base protein with its floor
calc_protein_per_lb_overwritten(preset, base_protein_per_lb) ==
    IF preset = "Cut (-20%)" THEN 100
    ELSE IF preset = "Recomp (0%)" THEN 90
    ELSE IF preset = "Lean Bulk (+10%)" THEN 80
    ELSE base_protein_per_lb

\* protein per lb, in hundredths of a gram
calc_protein_per_lb(preset, base_protein_per_lb) ==
    IF preset # "Custom"
    THEN IF preset = "Cut (-20%)" THEN MaxOf(base_protein_per_lb, 100)
         ELSE IF preset = "Recomp (0%)" THEN MaxOf(base_protein_per_lb, 90)
         ELSE IF preset = "Lean Bulk (+10%)" THEN MaxOf(base_protein_per_lb, 80)
         ELSE base_protein_per_lb
    ELSE base_protein_per_lb

calc_fat_percent(preset, style, base_fat_percent) ==
    LET f == style_fat_percent(style, base_fat_percent)
    IN  IF preset # "Custom"
        THEN IF preset = "Cut (-20%)" THEN MaxOf(f, 25)
             ELSE IF preset = "Recomp (0%)"
                  THEN (IF f < 25 \/ f > 35 THEN 30 ELSE f)
             ELSE IF preset = "Lean Bulk (+10%)"
                  THEN (IF f < 25 \/ f > 35 THEN 30 ELSE f)
             ELSE f
        ELSE f

Overridden(override_calories) == override_calories # 0 /\ override_calories > 0

\* Faulty variant: the goal delta is applied to the override as well
target_cal_scaled_override(override_calories, td, delta) ==
    FMul(IF Overridden(override_calories) THEN FInt(override_calories) ELSE td,
         FAdd(FInt(1), Divide(FInt(delta), FInt(100))))

target_cal(override_calories, td, delta) ==
    IF Overridden(override_calories) THEN FInt(override_calories)
    ELSE FMul(td, FAdd(FInt(1), Divide(FInt(delta), FInt(100))))

goal_source(override_calories) ==
    IF Overridden(override_calories) THEN "Override" ELSE "TDEE x goal"

\* Faulty variant: lean mass is the basis whenever it is present
basis_lb_lean_when_present(use_lean_mass, lm, wkg) ==
    IF lm # None THEN kg_to_lb(lm[1]) ELSE kg_to_lb(wkg)

basis_lb(use_lean_mass, lm, wkg) ==
    IF use_lean_mass /\ lm # None THEN kg_to_lb(lm[1]) ELSE kg_to_lb(wkg)

grams_protein(basis, protein_per_lb) == FMul(basis, FFrac(protein_per_lb, 100))
kcal_protein(gp) == FMul(gp, FInt(4))
kcal_fat(target, fat_percent) == FMul(target, Divide(FInt(fat_percent), FInt(100)))
grams_fat(kf) == Divide(kf, FInt(9))

\* Faulty variant: the remainder is taken after protein only
kcal_carb_without_fat(target, kp, kf) == FMax(FSub(target, kp), FZero)

\* Faulty variant: the remainder is not clamped at 0
kcal_carb_unclamped(target, kp, kf) == FSub(target, FAdd(kp, kf))

kcal_carb(target, kp, kf) == FMax(FSub(target, FAdd(kp, kf)), FZero)

grams_carb(kc) == Divide(kc, FInt(4))

pct(kcal, target) ==
    IF FCmp(target, FZero) > 0 THEN FMul(Divide(kcal, target), FInt(100)) ELSE FZero

delta_pct(target, td) ==
    IF FCmp(td, FZero) > 0 THEN FMul(Divide(FSub(target, td), td), FInt(100))
    ELSE FZero

\* Faulty variant: no guard on the meal count
per_meal_unguarded(grams, meals) == round_n(Divide(grams, FInt(meals)), 1)

per_meal(grams, meals) ==
    IF meals # 0 THEN round_n(Divide(grams, FInt(meals)), 1) ELSE FZero

\* One run of the script, top to bottom.  Each step takes the values o
\* computed so far and adds the values the next lines of the script assign.
Measures(w) == [height_cm |-> height_cm(w), weight_kg |-> weight_kg(w)]

LeanMass(w, o) ==
    o @@ [lean_mass_kg |-> lean_mass_kg(w.body_fat, o.weight_kg)]

ChooseBmr(w, o) ==
    o @@ [bmr |-> bmr(o.lean_mass_kg, w.sex, o.weight_kg, o.height_cm, w.age),
          bmr_method |-> bmr_method(o.lean_mass_kg)]

ApplyPresetStyle(w, o) ==
    o @@ [tdee |-> tdee(o.bmr, ACTIVITY(w.activity_label)),
          calc_calorie_delta_pct |->
              calc_calorie_delta_pct(w.preset, w.base_calorie_delta_pct),
          calc_protein_per_lb |->
              calc_protein_per_lb(w.preset, w.base_protein_per_lb),
          calc_fat_percent |->
              calc_fat_percent(w.preset, w.style, w.base_fat_percent)]

TargetCalories(w, o) ==
    o @@ [target_cal |->
              target_cal(w.override_calories, o.tdee, o.calc_calorie_delta_pct),
          goal_source |-> goal_source(w.override_calories),
          basis_lb |-> basis_lb(w.use_lean_mass, o.lean_mass_kg, o.weight_kg)]

MacroGrams(w, o) ==
    o @@ [grams_protein |-> grams_protein(o.basis_lb, o.calc_protein_per_lb),
          kcal_fat |-> kcal_fat(o.target_cal, o.calc_fat_percent)]

MacroKcal(w, o) ==
    o @@ [kcal_protein |-> kcal_protein(o.grams_protein),
          grams_fat |-> grams_fat(o.kcal_fat)]

CarbKcal(w, o) ==
    o @@ [kcal_carb |-> kcal_carb(o.target_cal, o.kcal_protein, o.kcal_fat)]

Percentages(w, o) ==
    o @@ [grams_carb |-> grams_carb(o.kcal_carb),
          pct_protein |-> pct(o.kcal_protein, o.target_cal),
          pct_fat |-> pct(o.kcal_fat, o.target_cal),
          pct_carb |-> pct(o.kcal_carb, o.target_cal),
          delta_pct |-> delta_pct(o.target_cal, o.tdee)]

PerMeal(w, o) ==
    o @@ [per_meal |-> [protein |-> per_meal(o.grams_protein, w.meals),
                        fat     |-> per_meal(o.grams_fat, w.meals),
                        carbs   |-> per_meal(o.grams_carb, w.meals)],
          ran |-> TRUE]

Script(w) ==
    PerMeal(w, Percentages(w, CarbKcal(w, MacroKcal(w, MacroGrams(w,
        TargetCalories(w, ApplyPresetStyle(w, ChooseBmr(w, LeanMass(w,
            Measures(w))))))))))

----------------------------------------------------------------------------
(* The sidebar: widget values, their defaults and the values tried *)

MaxEdits == 2

VARIABLES w, out, edits

vars == <<w, out, edits>>

NotRun == [ran |-> FALSE]

Defaults ==
    [units |-> "Imperial (lb, ft/in)", sex |-> "Male", age |-> 30,
     ft |-> 5, inch |-> 10, weight_lb |-> FFrac(1700, 10),
     height_cm |-> FFrac(1780, 10), weight_kg |-> FFrac(771, 10),
     body_fat |-> <<FFrac(180, 10)>>, activity_label |-> "Moderate (1.55)",
     base_calorie_delta_pct |-> 0, override_calories |-> 0,
     base_protein_per_lb |-> 90, use_lean_mass |-> TRUE,
     base_fat_percent |-> 30, meals |-> 3,
     preset |-> "Custom", style |-> "Balanced (30% fat)"]

Units     == {"Imperial (lb, ft/in)", "Metric (kg, cm)"}
Sexes     == {"Male", "Female"}
Ages      == {30, 90}
Feet      == {5, 8}
Inches    == {0, 10}
WeightsLb == {FFrac(1145, 10), FFrac(1700, 10)}
HeightsCm == {FFrac(1200, 10), FFrac(1780, 10)}
WeightsKg == {FFrac(300, 10), FFrac(771, 10)}
BodyFats  == {<<FFrac(0, 10)>>, <<FFrac(180, 10)>>, <<FFrac(700, 10)>>}
Activities == {"Sedentary (1.2)", "Moderate (1.55)"}
Deltas    == {-30, 0, 20}
Overrides == {0, 25, 2000}
Proteins  == {60, 90, 120}
FatPercents == {30, 40}
Meals     == {3, 8}
Presets   == {"Custom", "Cut (-20%)", "Recomp (0%)", "Lean Bulk (+10%)"}
Styles    == {"Balanced (30% fat)", "Low-carb (35% fat)", "High-carb (25% fat)"}

Init == w = Defaults /\ out = NotRun /\ edits = 0

\* The script runs after page load and after every widget edit
Rerun ==
    /\ ~out.ran
    /\ out' = Script(w)
    /\ UNCHANGED <<w, edits>>

\* The user sets widget f to v; the page is stale until the script reruns
Edit(f, v) ==
    /\ out.ran
    /\ edits < MaxEdits
    /\ w[f] # v
    /\ w' = [w EXCEPT ![f] = v]
    /\ out' = NotRun
    /\ edits' = edits + 1

\* The height and weight widgets exist only under their units; a widget
\* that is created again starts from its default value
SetUnits ==
    \E v \in Units :
        /\ out.ran /\ edits < MaxEdits /\ w.units # v
        /\ w' = [w EXCEPT !.units = v,
                          !.ft = Defaults.ft, !.inch = Defaults.inch,
                          !.weight_lb = Defaults.weight_lb,
                          !.height_cm = Defaults.height_cm,
                          !.weight_kg = Defaults.weight_kg]
        /\ out' = NotRun
        /\ edits' = edits + 1

SetSex      == \E v \in Sexes : Edit("sex", v)
SetAge      == \E v \in Ages : Edit("age", v)
SetFt       == Imperial(w.units) /\ \E v \in Feet : Edit("ft", v)
SetInch     == Imperial(w.units) /\ \E v \in Inches : Edit("inch", v)
SetWeightLb == Imperial(w.units) /\ \E v \in WeightsLb : Edit("weight_lb", v)
SetHeightCm == ~Imperial(w.units) /\ \E v \in HeightsCm : Edit("height_cm", v)
SetWeightKg == ~Imperial(w.units) /\ \E v \in WeightsKg : Edit("weight_kg", v)
SetBodyFat  == \E v \in BodyFats : Edit("body_fat", v)
SetActivity == \E v \in Activities : Edit("activity_label", v)
SetDelta    == \E v \in Deltas : Edit("base_calorie_delta_pct", v)
SetOverride == \E v \in Overrides : Edit("override_calories", v)
SetProtein  == \E v \in Proteins : Edit("base_protein_per_lb", v)
SetUseLean  == \E v \in BOOLEAN : Edit("use_lean_mass", v)
SetFat      == \E v \in FatPercents : Edit("base_fat_percent", v)
SetMeals    == \E v \in Meals : Edit("meals", v)
SetPreset   == \E v \in Presets : Edit("preset", v)
SetStyle    == \E v \in Styles : Edit("style", v)

Next ==
    \/ Rerun
    \/ SetUnits \/ SetSex \/ SetAge \/ SetFt \/ SetInch \/ SetWeightLb
    \/ SetHeightCm \/ SetWeightKg \/ SetBodyFat \/ SetActivity
    \/ SetDelta \/ SetOverride \/ SetProtein \/ SetUseLean \/ SetFat
    \/ SetMeals \/ SetPreset \/ SetStyle

Spec == Init /\ [][Next]_vars

----------------------------------------------------------------------------
(* The same script behind a shell that validates nothing: body fat may be  *)
(* missing (None), height and weight may be degenerate, the meal count may *)
(* be 0.  This is where the script's defensive branches (lines 104, 109,   *)
(* 174-176, 186, 213-215) are ever taken.                                  *)

GuardProfiles ==
    {[Defaults EXCEPT !.units = "Metric (kg, cm)", !.body_fat = bf,
                      !.height_cm = h, !.weight_kg = k, !.meals = m] :
        bf \in {None, <<FFrac(180, 10)>>},
        h  \in {FZero, FFrac(1780, 10)},
        k  \in {FZero, FFrac(145, 10), FFrac(771, 10)},
        m  \in {0, 3}}

GuardInit == w \in GuardProfiles /\ out = NotRun /\ edits = 0

SetMealsAny == \E v \in {0, 1, 3} : Edit("meals", v)

GuardNext ==
    \/ Rerun
    \/ SetMealsAny \/ SetOverride \/ SetDelta \/ SetPreset \/ SetActivity
    \/ SetUseLean

GuardSpec == GuardInit /\ [][GuardNext]_vars

----------------------------------------------------------------------------
(* Claims *)

\* The result values of one run (spec section 3, PlanResult)
Results(o) ==
    <<o.target_cal,
      o.grams_protein, o.kcal_protein, o.pct_protein,
      o.grams_fat, o.kcal_fat, o.pct_fat,
      o.grams_carb, o.kcal_carb, o.pct_carb,
      o.per_meal>>

IsZero(v) == v = FZero

NonNeg(v) == ~raised(v) /\ v.s >= 0

Absent(body_fat) == body_fat = None \/ IsZero(body_fat[1])

\* C1: a profile whose body-fat percent is absent (the form value 0) gets
\* Mifflin-St Jeor, BMR = 10*weight_kg + 6.25*height_cm - 5*age + s with
\* s = 5 for Male and -161 for Female; a profile whose body-fat percent is
\* provided gets Katch-McArdle, BMR = 370 + 21.6*lean_mass_kg.
C1_BmrMethodSelection ==
    out.ran =>
        IF Absent(w.body_fat)
        THEN /\ out.bmr_method = "Mifflin-St Jeor"
             /\ FEq(out.bmr,
                    FAdd(FSub(FAdd(FMul(FInt(10), out.weight_kg),
                                   FMul(FFrac(625, 100), out.height_cm)),
                              FInt(5 * w.age)),
                         FInt(IF w.sex = "Male" THEN 5 ELSE -161)))
        ELSE /\ out.bmr_method = "Katch-McArdle"
             /\ FEq(out.bmr,
                    FAdd(FInt(370), FMul(FFrac(216, 10), out.lean_mass_kg[1])))

StyleFat(style) ==
    CASE style = "Balanced (30% fat)"  -> 30
      [] style = "Low-carb (35% fat)"  -> 35
      [] style = "High-carb (25% fat)" -> 25

InBand(f) == IF f < 25 \/ f > 35 THEN 30 ELSE f

\* The effective <<delta, protein per lb (hundredths), fat percent>> the
\* spec's merge order gives: base, then style, then preset
EffectiveGoal(d, p, f, style, preset) ==
    LET f1 == StyleFat(style)
    IN  CASE preset = "Custom"           -> <<d, p, f1>>
          [] preset = "Cut (-20%)"       -> <<-20, MaxOf(p, 100), MaxOf(f1, 25)>>
          [] preset = "Recomp (0%)"      -> <<0, MaxOf(p, 90), InBand(f1)>>
          [] preset = "Lean Bulk (+10%)" -> <<10, MaxOf(p, 80), InBand(f1)>>

\* The page has loaded and the script has not run yet
Fresh == edits = 0 /\ ~out.ran

\* C2: for every base delta in -30..20, base protein in 0.60..1.20, base fat
\* in 20..40, style and preset, the effective goal is the base with the
\* style and then the preset applied; Cut forces delta to -20.
C2_GoalResolver ==
    /\ out.ran =>
         <<out.calc_calorie_delta_pct, out.calc_protein_per_lb,
           out.calc_fat_percent>>
         = EffectiveGoal(w.base_calorie_delta_pct, w.base_protein_per_lb,
                         w.base_fat_percent, w.style, w.preset)
    /\ Fresh =>
         \A d \in -30..20, p \in 60..120, f \in 20..40,
            style \in Styles, preset \in Presets :
             <<calc_calorie_delta_pct(preset, d), calc_protein_per_lb(preset, p),
               calc_fat_percent(preset, style, f)>>
             = EffectiveGoal(d, p, f, style, preset)

C2_Witness ==
    /\ out.ran
    /\ w.preset = "Cut (-20%)"
    /\ w.base_calorie_delta_pct = 20
    /\ out.calc_calorie_delta_pct = -20
    /\ out.calc_protein_per_lb = 100

\* C3: with override_calories > 0 the target is the override and the goal
\* source is Override, whatever TDEE, activity, preset and base delta are;
\* with override_calories = 0 the target is TDEE * (1 + delta/100) and the
\* goal source is TDEE x goal.
C3_TargetCalories ==
    out.ran =>
        IF w.override_calories > 0
        THEN /\ FEq(out.target_cal, FInt(w.override_calories))
             /\ out.goal_source = "Override"
        ELSE /\ FEq(out.target_cal,
                    FMul(out.tdee,
                         FAdd(FInt(1),
                              Divide(FInt(out.calc_calorie_delta_pct),
                                     FInt(100)))))
             /\ out.goal_source = "TDEE x goal"

C3_Witness ==
    /\ out.ran
    /\ w.override_calories = 2000
    /\ w.preset = "Cut (-20%)"
    /\ FEq(out.target_cal, FInt(2000))
    /\ ~FEq(out.tdee, FInt(2000))

Variant(d, p, f) ==
    [w EXCEPT !.base_calorie_delta_pct = d, !.base_protein_per_lb = p,
              !.base_fat_percent = f]

\* C4 as claimed: under a non-Custom preset, two inputs that differ only in
\* base delta, base protein and/or base fat give identical results.
C4_BaseValuesIgnored ==
    (out.ran /\ w.preset # "Custom") =>
        \A d \in {-30, 20}, p \in {60, 120}, f \in {20, 40} :
            Results(Script(Variant(d, p, f))) = Results(out)

\* C4 as amended: under a non-Custom preset, two inputs that differ only in
\* base delta and/or base fat give identical results (every input gives the
\* results of its variants at both ends of the two sliders).
C4_BaseDeltaFatIgnored ==
    (out.ran /\ w.preset # "Custom") =>
        \A df \in {<<-30, 20>>, <<20, 40>>} :
            Results(Script(Variant(df[1], w.base_protein_per_lb, df[2])))
            = Results(out)

C4_Witness ==
    /\ out.ran
    /\ w.preset = "Lean Bulk (+10%)"
    /\ w.base_calorie_delta_pct = -30
    /\ out.goal_source = "TDEE x goal"
    /\ Results(Script(Variant(20, w.base_protein_per_lb, 40))) = Results(out)

\* Protein and fat alone exceed the target
Clamped(o) == FLt(o.target_cal, FAdd(o.kcal_protein, o.kcal_fat))

Total(o) == FAdd(FAdd(o.kcal_protein, o.kcal_fat), o.kcal_carb)

\* Protein and fat calories are basis_lb * protein_per_lb * 4 and
\* target_calories * fat_percent / 100, whatever the carbohydrates get
Unscaled(o) ==
    /\ FEq(o.kcal_protein,
           FMul(FMul(o.basis_lb, FFrac(o.calc_protein_per_lb, 100)), FInt(4)))
    /\ FEq(o.kcal_fat,
           FMul(o.target_cal, Divide(FInt(o.calc_fat_percent), FInt(100))))

\* |a - b| <= 10^-9
Near(a, b) ==
    LET d == FSub(a, b)
    IN  FCmp([d EXCEPT !.s = d.s * d.s], FFrac(1, 1000000000)) <= 0

\* C5 as claimed: kcal_protein + kcal_fat + kcal_carb = target_calories
\* whenever target_calories >= kcal_protein + kcal_fat; otherwise kcal_carb
\* is 0, protein and fat keep their unscaled values, and the total is
\* kcal_protein + kcal_fat, which exceeds the target.
C5_MacroCalorieTotal ==
    out.ran =>
        /\ Unscaled(out)
        /\ IF Clamped(out)
           THEN /\ IsZero(out.kcal_carb)
                /\ FEq(Total(out), FAdd(out.kcal_protein, out.kcal_fat))
                /\ FLt(out.target_cal, Total(out))
           ELSE FEq(Total(out), out.target_cal)

\* C5 as amended: the same, except that without the clamp the total equals
\* the target only up to the rounding of the float additions (the two are
\* within 10^-9 kcal of each other).
C5_MacroCalorieTotalRounded ==
    out.ran =>
        /\ Unscaled(out)
        /\ IF Clamped(out)
           THEN /\ IsZero(out.kcal_carb)
                /\ FEq(Total(out), FAdd(out.kcal_protein, out.kcal_fat))
                /\ FLt(out.target_cal, Total(out))
           ELSE Near(Total(out), out.target_cal)

C5_Witness ==
    /\ out.ran
    /\ ~Clamped(out)
    /\ out.kcal_carb.s > 0
    /\ ~FEq(Total(out), out.target_cal)
    /\ Near(Total(out), out.target_cal)

\* C6: for all valid inputs the three gram values and the three per-meal
\* gram values are >= 0.
C6_NonNegativeGrams ==
    out.ran =>
        /\ NonNeg(out.grams_protein)
        /\ NonNeg(out.grams_fat)
        /\ NonNeg(out.grams_carb)
        /\ NonNeg(out.per_meal.protein)
        /\ NonNeg(out.per_meal.fat)
        /\ NonNeg(out.per_meal.carbs)

C6_Witness ==
    /\ out.ran
    /\ FLt(FSub(out.target_cal, FAdd(out.kcal_protein, out.kcal_fat)), FZero)
    /\ IsZero(out.grams_carb)
    /\ IsZero(out.per_meal.carbs)
    /\ out.per_meal.protein.s > 0

AllValues(o) ==
    {o.basis_lb, o.grams_protein, o.kcal_protein, o.kcal_fat, o.grams_fat,
     o.kcal_carb, o.grams_carb, o.pct_protein, o.pct_fat, o.pct_carb,
     o.delta_pct, o.per_meal.protein, o.per_meal.fat, o.per_meal.carbs,
     o.target_cal, o.tdee, o.bmr}

NoZeroDivision(o) == \A v \in AllValues(o) : ~raised(v)

PercentsZero(o) ==
    IsZero(o.pct_protein) /\ IsZero(o.pct_fat) /\ IsZero(o.pct_carb)

PerMealZero(o) ==
    /\ IsZero(o.per_meal.protein)
    /\ IsZero(o.per_meal.fat)
    /\ IsZero(o.per_meal.carbs)

C9_ProteinBasis ==
    out.ran =>
        LET present == out.lean_mass_kg # None
            kg == IF w.use_lean_mass /\ present THEN out.lean_mass_kg[1]
                  ELSE out.weight_kg
        IN  /\ present <=> out.bmr_method = "Katch-McArdle"
            /\ FEq(out.basis_lb, Divide(kg, FFrac(45359237, 100000000)))
            /\ FEq(out.grams_protein,
                   FMul(out.basis_lb, FFrac(out.calc_protein_per_lb, 100)))

C9_Witness ==
    /\ out.ran
    /\ ~w.use_lean_mass
    /\ out.lean_mass_kg # None
    /\ FLt(out.lean_mass_kg[1], out.weight_kg)
    /\ FEq(out.basis_lb, Divide(out.weight_kg, FFrac(45359237, 100000000)))
    /\ FLt(Divide(out.lean_mass_kg[1], FFrac(45359237, 100000000)),
           out.basis_lb)

\* C10: the effective fat percent is the style's alone (30, 35 or 25, so in
\* [25,35]) for every base fat percent in 20..40 and every preset; the
\* preset's fat adjustments never change it, and base_fat_percent
\* influences no output.
C10_FatPercentByStyle ==
    /\ out.ran =>
         /\ out.calc_fat_percent = StyleFat(w.style)
         /\ \A f \in {20, 40} :
                Script([w EXCEPT !.base_fat_percent = f]) = out
    /\ Fresh =>
         \A f \in 20..40, style \in Styles, preset \in Presets :
             /\ calc_fat_percent(preset, style, f) = StyleFat(style)
             /\ calc_fat_percent(preset, style, f) \in 25..35
             /\ calc_fat_percent(preset, style, f) = style_fat_percent(style, f)

C10_Witness ==
    /\ out.ran
    /\ w.base_fat_percent = 40
    /\ w.preset = "Cut (-20%)"
    /\ out.calc_fat_percent = 30

====
